---- MODULE Spec2Model ----
(***************************************************************************)
(* A model of the chat-statistics program: the Message record              *)
(* (src/src/models/message.py), the Analyzer and its metric operations     *)
(* (src/src/analysis.py) and the command-line entry point (src/main.py).   *)
(*                                                                         *)
(* Conventions.                                                            *)
(*  - A Python str is a sequence of Unicode code points.                   *)
(*  - Python's None is the value None defined below.                       *)
(*  - A dict with fixed keys is a record; a dict or Counter keyed by data  *)
(*    is the sequence of its <<key, value>> items in insertion order.      *)
(*  - A float that results from a true division is the exact fraction      *)
(*    <<numerator, denominator>> in lowest terms (Frac).                   *)
(*    FloatOf gives the binary64 number that is returned for it.           *)
(*  - A calendar date string '%Y-%m-%d' is <<year, month, day>>.           *)
(***************************************************************************)
EXTENDS Integers, Sequences, FiniteSets, TLC

VARIABLES
    messages,         \* Analyzer.messages
    conversation_id,  \* Analyzer.conversation_id
    TZ,               \* the local time zone of the process
    files,            \* the file system: the set of [name, lines] written
    ret,              \* the outcome of the latest call on the Analyzer
    calls,            \* the number of calls made on the Analyzer
    first,            \* the outcome of the first call on the Analyzer
    loaded,           \* the sequence the Analyzer was constructed with
    argv,             \* sys.argv of the command line
    pc,               \* the position of the script main.py
    script_id,        \* the script's conversation_id, None before it is set
    stdout,           \* the lines the script printed
    stderr,           \* the uncaught exception the interpreter reported
    exit_status,      \* <<>> while the process runs, then <<its exit status>>
    created           \* the objects the script constructed

vars == <<messages, conversation_id, TZ, files, ret, calls, first, loaded,
          argv, pc, script_id, stdout, stderr, exit_status, created>>

analyzerVars ==
    <<messages, conversation_id, TZ, files, ret, calls, first, loaded>>

cliVars == <<argv, pc, script_id, stdout, stderr, exit_status, created>>

-----------------------------------------------------------------------------
(* Bounds of the model *)

MaxLen == 3

MaxCalls == 2

MaxArgLen == 3

-----------------------------------------------------------------------------
(* Values *)

None == <<-1>>

RECURSIVE GCD(_, _)
GCD(a, b) == IF b = 0 THEN a ELSE GCD(b, a % b)

Abs(n) == IF n < 0 THEN -n ELSE n

\* n / d of Python (true division) for d # 0, as a fraction in lowest terms
\* with a positive denominator.
Frac(n, d) ==
    LET g == GCD(Abs(n), Abs(d))
        s == IF d < 0 THEN -1 ELSE 1
    IN  <<(s * n) \div g, (s * d) \div g>>

Zero == Frac(0, 1)

(* float: a binary64 number x >= 0 is <<e, m>>, m its 53 significand bits, the
   first of them 1, and x = (m[1] + m[2]/2 + ... + m[53]/2^52) * 2^e; 0.0 is
   <<0, <<>>>>. The numbers of the model are far from the subnormal and the
   overflow range. *)

FloatZero == <<0, <<>>>>

\* n / d scaled by a power of two into [1, 2): <<e, n1, d1>> with
\* n / d = (n1 / d1) * 2^e and d1 <= n1 < 2 * d1, for n > 0 and d > 0.
RECURSIVE Normalised(_, _, _)
Normalised(n, d, e) ==
    IF n >= 2 * d THEN Normalised(n, 2 * d, e + 1)
    ELSE IF n < d THEN Normalised(2 * n, d, e - 1)
    ELSE <<e, n, d>>

\* The 8 binary digits of q < 256.
Byte(q) ==
    <<(q \div 128) % 2, (q \div 64) % 2, (q \div 32) % 2, (q \div 16) % 2,
      (q \div 8) % 2, (q \div 4) % 2, (q \div 2) % 2, q % 2>>

\* The next 8 * k binary digits of r / d for r < d, then whether a remainder
\* is left.
RECURSIVE QuotientBits(_, _, _)
QuotientBits(r, d, k) ==
    IF k = 0 THEN [bits |-> <<>>, rest |-> r # 0]
    ELSE LET more == QuotientBits((256 * r) % d, d, k - 1)
         IN  [bits |-> Byte((256 * r) \div d) \o more.bits, rest |-> more.rest]

\* bits + 1 in binary: <<carry out, the bits>>.
Increment(bits) ==
    LET ones(i) == \A k \in (i + 1)..Len(bits) : bits[k] = 1
    IN  <<IF ones(0) THEN 1 ELSE 0,
          [i \in 1..Len(bits) |-> IF ones(i) THEN 1 - bits[i] ELSE bits[i]]>>

Zeros(k) == [i \in 1..k |-> 0]

\* The binary64 nearest to (bits as a significand in [1, 2)) * 2^e, ties to
\* even; rest says that non-zero digits follow bits.
RoundToFloat(e, bits, rest) ==
    IF Len(bits) <= 53 THEN <<e, bits \o Zeros(53 - Len(bits))>>
    ELSE LET kept == SubSeq(bits, 1, 53)
             guard == bits[54]
             sticky == rest \/ \E i \in 55..Len(bits) : bits[i] = 1
             up == guard = 1 /\ (sticky \/ kept[53] = 1)
             inc == Increment(kept)
         IN  IF ~up THEN <<e, kept>>
             ELSE IF inc[1] = 1 THEN <<e + 1, <<1>> \o Zeros(52)>>
             ELSE <<e, inc[2]>>

\* n / d of Python for integers n >= 0 and d > 0: the correctly rounded quotient.
float_div(n, d) ==
    IF n = 0 THEN FloatZero
    ELSE LET s == Normalised(n, d, 0)
             q == QuotientBits(s[2] - s[3], s[3], 7)
         IN  RoundToFloat(s[1], <<1>> \o q.bits, q.rest)

\* The float that a quotient q >= 0, kept as a fraction, is returned as.
FloatOf(q) == float_div(q[1], q[2])

\* a + b of two bit strings of one length: <<carry out, the bits>>. A carry
\* enters position i when a position to its right generates one and all the
\* positions between pass it on.
AddBits(a, b) ==
    LET carry(i) == \E j \in (i + 1)..Len(a) :
                        /\ a[j] + b[j] = 2
                        /\ \A k \in (i + 1)..(j - 1) : a[k] + b[k] = 1
    IN  <<IF carry(0) THEN 1 ELSE 0,
          [i \in 1..Len(a) |-> (a[i] + b[i] + (IF carry(i) THEN 1 ELSE 0)) % 2]>>

\* x + y of Python for floats x, y >= 0: the correctly rounded sum.
float_add(x, y) ==
    IF x = FloatZero THEN y
    ELSE IF y = FloatZero THEN x
    ELSE LET e == IF x[1] >= y[1] THEN x[1] ELSE y[1]
             len == IF x[1] >= y[1] THEN 53 + (x[1] - y[1]) ELSE 53 + (y[1] - x[1])
             a == Zeros(e - x[1]) \o x[2] \o Zeros(len - 53 - (e - x[1]))
             b == Zeros(e - y[1]) \o y[2] \o Zeros(len - 53 - (e - y[1]))
             sum == AddBits(a, b)
         IN  IF sum[1] = 1 THEN RoundToFloat(e + 1, <<1>> \o sum[2], FALSE)
             ELSE RoundToFloat(e, sum[2], FALSE)

RECURSIVE SumSeq(_)
SumSeq(s) == IF s = <<>> THEN 0 ELSE Head(s) + SumSeq(Tail(s))

\* sum(1 for x in s if P(x))
CountIf(s, P(_)) == Cardinality({i \in 1..Len(s) : P(s[i])})

\* [x for x in s if P(x)]
Filter(s, P(_)) == SelectSeq(s, P)

\* [F(x) for x in s]
Map(s, F(_)) == [i \in 1..Len(s) |-> F(s[i])]

RECURSIVE Concat(_)
Concat(ss) == IF ss = <<>> THEN <<>> ELSE Head(ss) \o Concat(Tail(ss))

\* The sequences over S of length at most n.
SeqsUpTo(S, n) == UNION {[1..k -> S] : k \in 0..n}

-----------------------------------------------------------------------------
(* collections.Counter *)

CounterIndex(c, k) ==
    IF \E i \in 1..Len(c) : c[i][1] = k
    THEN CHOOSE i \in 1..Len(c) : c[i][1] = k
    ELSE 0

CounterAdd(c, k) ==
    LET i == CounterIndex(c, k)
    IN  IF i = 0 THEN Append(c, <<k, 1>>)
        ELSE [c EXCEPT ![i] = <<k, c[i][2] + 1>>]

RECURSIVE CounterFrom(_, _)
CounterFrom(c, xs) ==
    IF xs = <<>> THEN c ELSE CounterFrom(CounterAdd(c, Head(xs)), Tail(xs))

Counter(xs) == CounterFrom(<<>>, xs)

\* The first item, in iteration order, whose count is the largest.
FirstMax(c) ==
    CHOOSE i \in 1..Len(c) :
        /\ \A j \in 1..Len(c) : c[j][2] <= c[i][2]
        /\ \A j \in 1..(i - 1) : c[j][2] < c[i][2]

\* The first item, in iteration order, whose count is the smallest:
\* min(d, key=d.get).
FirstMin(c) ==
    CHOOSE i \in 1..Len(c) :
        /\ \A j \in 1..Len(c) : c[j][2] >= c[i][2]
        /\ \A j \in 1..(i - 1) : c[j][2] > c[i][2]

RemoveAt(s, i) == SubSeq(s, 1, i - 1) \o SubSeq(s, i + 1, Len(s))

\* Counter.most_common(n): the n items with the largest counts, largest
\* first, items of equal count in iteration order.
RECURSIVE most_common(_, _)
most_common(c, n) ==
    IF n = 0 \/ c = <<>> THEN <<>>
    ELSE LET i == FirstMax(c)
         IN  <<c[i]>> \o most_common(RemoveAt(c, i), n - 1)

-----------------------------------------------------------------------------
(* str: a sequence of code points *)

IsSpace(c) == c = 32 \/ c \in 9..13

IsAsciiLetter(c) == c \in 65..90 \/ c \in 97..122

\* What \w matches, on ASCII and the Latin-1 letters.
IsWordChar(c) ==
    \/ c \in 48..57
    \/ IsAsciiLetter(c)
    \/ c = 95
    \/ (c \in 192..255 /\ c # 215 /\ c # 247)

\* What [\U00010000-\U0010ffff] matches.
IsEmoji(c) == c >= 65536 /\ c <= 1114111

LowerChar(c) ==
    IF c \in 65..90 \/ (c \in 192..222 /\ c # 215) THEN c + 32 ELSE c

\* str.lower()
lower(s) == Map(s, LowerChar)

\* The maximal runs of s whose characters satisfy P, in order.
Runs(s, P(_)) ==
    LET starts == {i \in 1..Len(s) : P(s[i]) /\ (i = 1 \/ ~P(s[i - 1]))}
        nth(k) == CHOOSE i \in starts : Cardinality({j \in starts : j < i}) = k - 1
        endOf(i) == CHOOSE j \in i..Len(s) :
                        /\ \A m \in i..j : P(s[m])
                        /\ (j = Len(s) \/ ~P(s[j + 1]))
    IN  [k \in 1..Cardinality(starts) |-> SubSeq(s, nth(k), endOf(nth(k)))]

\* re.findall(r'\w+', s)
findall_words(s) == Runs(s, IsWordChar)

NotSpace(c) == ~IsSpace(c)

\* str.split()
split(s) == Runs(s, NotSpace)

\* ' '.join(ss)
RECURSIVE join_space(_)
join_space(ss) ==
    IF ss = <<>> THEN <<>>
    ELSE IF Len(ss) = 1 THEN Head(ss)
    ELSE Head(ss) \o <<32>> \o join_space(Tail(ss))

\* \b at the gap before position p of s (p in 1..Len(s)+1).
WordBoundary(s, p) ==
    LET before == p > 1 /\ IsWordChar(s[p - 1])
        after == p <= Len(s) /\ IsWordChar(s[p])
    IN  before # after

MatchAt(s, i, lit) ==
    /\ i + Len(lit) - 1 <= Len(s)
    /\ SubSeq(s, i, i + Len(lit) - 1) = lit

\* re.compile(r'\b(<phrase>[a-z]*|<short>)\b', re.IGNORECASE).search(s),
\* phrase and short given in lower case.
greeting_search(s, phrase, short) ==
    LET t == lower(s)
    IN  \E i \in 1..Len(t) :
            /\ WordBoundary(t, i)
            /\ \/ /\ MatchAt(t, i, phrase)
                  /\ \E k \in 0..Len(t) :
                        /\ i + Len(phrase) + k - 1 <= Len(t)
                        /\ \A m \in (i + Len(phrase))..(i + Len(phrase) + k - 1) :
                              t[m] \in 97..122
                        /\ WordBoundary(t, i + Len(phrase) + k)
               \/ /\ MatchAt(t, i, short)
                  /\ WordBoundary(t, i + Len(short))

\* "bom dia", "bd", "boa noite", "bn"
BomDia == <<98, 111, 109, 32, 100, 105, 97>>
Bd == <<98, 100>>
BoaNoite == <<98, 111, 97, 32, 110, 111, 105, 116, 101>>
Bn == <<98, 110>>

\* `if message.text_data`: neither None nor the empty string.
HasText(m) == m.text_data # None /\ m.text_data # <<>>

-----------------------------------------------------------------------------
(* datetime *)

DayMs == 86400000

HourMs == 3600000

\* The offset from UTC, in ms, that the time zone tz has at a timestamp: a
\* zone is its offset before and from one clock change on (a zone without
\* daylight saving has the same offset on both sides).
utcoffset(tz, timestamp) == IF timestamp < tz.until THEN tz.before ELSE tz.after

\* datetime.fromtimestamp(timestamp / 1000): the naive local wall clock, as the
\* number of ms since 1970-01-01 00:00 on that clock.
fromtimestamp(timestamp, tz) == timestamp + utcoffset(tz, timestamp)

\* (end - start).days: timedelta normalises to whole days, floored.
timedelta_days(end, start) == (end - start) \div DayMs

\* The proleptic Gregorian date <<year, month, day>> of a day number
\* (days since 1970-01-01).
CivilFromDays(z0) ==
    LET z == z0 + 719468
        era == z \div 146097
        doe == z - era * 146097
        yoe == (doe - doe \div 1460 + doe \div 36524 - doe \div 146096) \div 365
        doy == doe - (365 * yoe + yoe \div 4 - yoe \div 100)
        mp == (5 * doy + 2) \div 153
        d == doy - (153 * mp + 2) \div 5 + 1
        m == IF mp < 10 THEN mp + 3 ELSE mp - 9
        y == yoe + era * 400 + (IF m <= 2 THEN 1 ELSE 0)
    IN  <<y, m, d>>

\* dt.strftime('%Y-%m-%d')
strftime_Ymd(dt) == CivilFromDays(dt \div DayMs)

\* dt.strftime('%Y-%m')
strftime_Ym(dt) == SubSeq(CivilFromDays(dt \div DayMs), 1, 2)

WeekdayNames ==
    <<"Monday", "Tuesday", "Wednesday", "Thursday", "Friday", "Saturday", "Sunday">>

\* dt.strftime('%A'): 1970-01-01 was a Thursday.
strftime_A(dt) == WeekdayNames[((dt \div DayMs + 3) % 7) + 1]

\* dt.hour
hour(dt) == (dt % DayMs) \div HourMs

-----------------------------------------------------------------------------
(* Message *)

\* bool(x) of an integer
bool(x) == x # 0

Message(message_id, timestamp, text_data, message_type, from_me) ==
    [message_id |-> message_id, timestamp |-> timestamp, text_data |-> text_data,
     message_type |-> message_type, from_me |-> bool(from_me)]

\* Message.from_row(row): the columns 0, 13, 17, 16 and 3 of a database row.
from_row(row) == Message(row[1], row[14], row[18], row[17], row[4])

-----------------------------------------------------------------------------
(* constants.py: the vocabularies. The module is not among the sources; the
   word lists below stand for its fixed lists. *)

\* "de", "a"
LANGUAGE_CONNECTORS == {<<100, 101>>, <<97>>}

\* "amo", "amor"
LOVE_WORDS == {<<97, 109, 111>>, <<97, 109, 111, 114>>}

\* "bobo"
INSULT_WORDS == {<<98, 111, 98, 111>>}

-----------------------------------------------------------------------------
(* Analyzer: what each metric computes from self.messages (msgs),
   self.conversation_id (cid) and the local time zone (tz) *)

FromMe(m) == m.from_me

total_messages(msgs) == Len(msgs)

messages_by_sender_offby(msgs) ==
    LET from_me_count == CountIf(msgs, FromMe)
        from_them_count == Len(msgs) - 1 - from_me_count
    IN  [from_me |-> from_me_count, from_them |-> from_them_count]

messages_by_sender(msgs) ==
    LET from_me_count == CountIf(msgs, FromMe)
        from_them_count == Len(msgs) - from_me_count
    IN  [from_me |-> from_me_count, from_them |-> from_them_count]

span_days_inclusive(msgs, tz) ==
    timedelta_days(fromtimestamp(msgs[Len(msgs)].timestamp, tz),
                   fromtimestamp(msgs[1].timestamp, tz)) + 1

\* `(end_date - start_date).days or 1`
span_days(msgs, tz) ==
    LET start_date == fromtimestamp(msgs[1].timestamp, tz)
        end_date == fromtimestamp(msgs[Len(msgs)].timestamp, tz)
        days == timedelta_days(end_date, start_date)
    IN  IF days = 0 THEN 1 ELSE days

average_messages_per_day(msgs, tz) ==
    IF msgs = <<>>
    THEN [general |-> Zero, me |-> Zero, them |-> Zero]
    ELSE LET days == span_days(msgs, tz)
             total == Len(msgs)
             my_messages == CountIf(msgs, FromMe)
             their_messages == total - my_messages
         IN  [average_messages_per_day_general |-> Frac(total, days),
              average_messages_per_day_me |-> Frac(my_messages, days),
              average_messages_per_day_them |-> Frac(their_messages, days)]

\* Counter(strftime('%Y-%m-%d') of each message)
day_counts(msgs, tz) ==
    LET day(m) == strftime_Ymd(fromtimestamp(m.timestamp, tz))
    IN  Counter(Map(msgs, day))

day_with_most_messages(msgs, tz) ==
    LET most_common_day == most_common(day_counts(msgs, tz), 1)
    IN  IF most_common_day # <<>> THEN most_common_day[1] ELSE None

KeptCountNonZero(item) == item[2] # 0

\* `count not in [0, 2]`
KeptCount(item) == item[2] \notin {0, 2}

day_with_least_messages(msgs, tz) ==
    LET filtered_day_counts == Filter(day_counts(msgs, tz), KeptCount)
    IN  IF filtered_day_counts # <<>>
        THEN filtered_day_counts[FirstMin(filtered_day_counts)]
        ELSE None

TextOf(m) == m.text_data

LowerTextOf(m) == lower(m.text_data)

file_name_of(prefix, cid) == <<prefix, cid, ".txt">>

num_words == 30

most_common_words(msgs, cid) ==
    LET words == findall_words(join_space(Map(Filter(msgs, HasText), LowerTextOf)))
        NotConnector(w) == w \notin LANGUAGE_CONNECTORS
        filtered_words == Filter(words, NotConnector)
        common_words == most_common(Counter(filtered_words), num_words)
    IN  [file_name |-> file_name_of("most-common-words-", cid), data |-> common_words]

total_words_sent(msgs) ==
    LET n(m) == Len(findall_words(m.text_data))
    IN  SumSeq(Map(Filter(msgs, HasText), n))

messages_per_hour(msgs, cid, tz) ==
    LET h(m) == hour(fromtimestamp(m.timestamp, tz))
        hour_counts == Counter(Map(msgs, h))
        label(item) == <<<<item[1], ":00">>, item[2]>>
    IN  [file_name |-> file_name_of("messages-per-hour-", cid),
         data |-> Map(hour_counts, label)]

emojis_of(msgs) == Concat(Map(Map(Filter(msgs, HasText), TextOf), LAMBDA t : Filter(t, IsEmoji)))

number_of_emojis(msgs) ==
    LET n(m) == Len(Filter(m.text_data, IsEmoji))
    IN  SumSeq(Map(Filter(msgs, HasText), n))

top_n == 15

most_used_emojis(msgs, cid) ==
    [file_name |-> file_name_of("top-emojis-", cid),
     data |-> most_common(Counter(emojis_of(msgs)), top_n)]

photo_messages_count_single(msgs) == CountIf(msgs, LAMBDA m : m.message_type = 1)

photo_messages_count(msgs) ==
    CountIf(msgs, LAMBDA m : m.message_type = 1 \/ m.message_type = 42)

sticker_messages_count(msgs) == CountIf(msgs, LAMBDA m : m.message_type = 20)

audio_messages_count(msgs) == CountIf(msgs, LAMBDA m : m.message_type = 2)

video_messages_count(msgs) == CountIf(msgs, LAMBDA m : m.message_type = 3)

call_count(msgs) == CountIf(msgs, LAMBDA m : m.message_type = 90)

location_shared_count(msgs) ==
    CountIf(msgs, LAMBDA m : m.message_type = 5 \/ m.message_type = 16)

good_morning_night_messages(msgs) ==
    LET texts == Filter(msgs, HasText)
        morning(m) == greeting_search(m.text_data, BomDia, Bd)
        night(m) == greeting_search(m.text_data, BoaNoite, Bn)
    IN  [bom_dia |-> CountIf(texts, morning), boa_noite |-> CountIf(texts, night)]

AverageSecondsNoDefault(xs) == IF xs # <<>> THEN Frac(SumSeq(xs), 1000 * Len(xs)) ELSE None

\* sum(xs) / len(xs) if xs else 0, the gaps xs in ms and the result in seconds

AverageSeconds(xs) == IF xs # <<>> THEN Frac(SumSeq(xs), 1000 * Len(xs)) ELSE Zero

\* The loop of average_response_time: the gap of message i to message i - 1,
\* for the positions i >= 2 that satisfy P.
GapsWhere(msgs, P(_)) ==
    LET idx == Filter([i \in 1..Len(msgs) |-> i], LAMBDA i : i >= 2 /\ P(i))
    IN  Map(idx, LAMBDA i : msgs[i].timestamp - msgs[i - 1].timestamp)

average_response_time_by_previous(msgs) ==
    [average_response_time_general |-> AverageSeconds(GapsWhere(msgs, LAMBDA i : TRUE)),
     average_response_time_me |->
        AverageSeconds(GapsWhere(msgs, LAMBDA i : msgs[i - 1].from_me)),
     average_response_time_them |->
        AverageSeconds(GapsWhere(msgs, LAMBDA i : ~msgs[i - 1].from_me))]

average_response_time(msgs) ==
    LET response_times == GapsWhere(msgs, LAMBDA i : TRUE)
        my_response_times == GapsWhere(msgs, LAMBDA i : msgs[i].from_me)
        their_response_times == GapsWhere(msgs, LAMBDA i : ~msgs[i].from_me)
    IN  [average_response_time_general |-> AverageSeconds(response_times),
         average_response_time_me |-> AverageSeconds(my_response_times),
         average_response_time_them |-> AverageSeconds(their_response_times)]

\* Counter of the whitespace-separated lower-case words that are in vocabulary
word_counts(msgs, vocabulary) ==
    LET words == Concat(Map(Map(Filter(msgs, HasText), LowerTextOf), split))
    IN  Counter(Filter(words, LAMBDA w : w \in vocabulary))

love_words_count(msgs, cid) ==
    [file_name |-> file_name_of("love-word-counts-", cid),
     data |-> word_counts(msgs, LOVE_WORDS)]

insult_words_count(msgs, cid) ==
    [file_name |-> file_name_of("insult-word-counts-", cid),
     data |-> word_counts(msgs, INSULT_WORDS)]

weekday_frequency_variation(msgs, cid, tz) ==
    [file_name |-> file_name_of("weekday-frequency-", cid),
     data |-> Counter(Map(msgs, LAMBDA m : strftime_A(fromtimestamp(m.timestamp, tz))))]

monthly_frequency_variation(msgs, cid, tz) ==
    [file_name |-> file_name_of("monthly-frequency-", cid),
     data |-> Counter(Map(msgs, LAMBDA m : strftime_Ym(fromtimestamp(m.timestamp, tz))))]

daily_frequency_variation(msgs, cid, tz) ==
    [file_name |-> file_name_of("daily-frequency-", cid),
     data |-> day_counts(msgs, tz)]

\* Analyzer.write_to_file(data, file_name) when open() and the writes succeed:
\* the file holds one line f"{key}\t{value}\n" per item, replacing what it held.
write_to_file(fs, data, file_name) ==
    {f \in fs : f.name # file_name}
        \cup {[name |-> file_name,
               lines |-> Map(data, LAMBDA item : <<item[1], "\t", item[2], "\n">>)]}

Pure(key, value) == [key |-> key, writes |-> FALSE, value |-> value, out |-> None]

Written(key, r) == [key |-> key, writes |-> TRUE, value |-> r.file_name, out |-> r]

analyze_entries_short(msgs, cid, tz) ==
    << Pure("Total Messages", total_messages(msgs)),
       Pure("Messages by Sender", messages_by_sender(msgs)),
       Pure("Average Messages per Day", average_messages_per_day(msgs, tz)),
       Pure("Day with Most Messages", day_with_most_messages(msgs, tz)),
       Pure("Day with Least Messages", day_with_least_messages(msgs, tz)),
       Written("Most Common Words", most_common_words(msgs, cid)),
       Pure("Total Words Sent", total_words_sent(msgs)),
       Written("Messages per Hour", messages_per_hour(msgs, cid, tz)),
       Pure("Number of Emojis", number_of_emojis(msgs)),
       Written("Most Used Emoji", most_used_emojis(msgs, cid)),
       Pure("Photo Messages Count", photo_messages_count(msgs)),
       Pure("Video Messages Count", video_messages_count(msgs)),
       Pure("Audio Messages Count", audio_messages_count(msgs)),
       Pure("Location Messages Count", location_shared_count(msgs)),
       Pure("Call Count", call_count(msgs)),
       Pure("Good Morning/Night Messages", good_morning_night_messages(msgs)),
       Pure("Average Response Time", average_response_time(msgs)),
       Written("Love Words Count", love_words_count(msgs, cid)),
       Written("Insult Words Count", insult_words_count(msgs, cid)),
       Written("Monthly Message Frequency Variation",
               monthly_frequency_variation(msgs, cid, tz)),
       Written("Daily Message Frequency Variation",
               daily_frequency_variation(msgs, cid, tz)),
       Written("Weekday Message Frequency Variation",
               weekday_frequency_variation(msgs, cid, tz)) >>

\* The dict display of analyze(): its entries, evaluated in this order.
analyze_entries(msgs, cid, tz) ==
    << Pure("Total Messages", total_messages(msgs)),
       Pure("Messages by Sender", messages_by_sender(msgs)),
       Pure("Average Messages per Day", average_messages_per_day(msgs, tz)),
       Pure("Day with Most Messages", day_with_most_messages(msgs, tz)),
       Pure("Day with Least Messages", day_with_least_messages(msgs, tz)),
       Written("Most Common Words", most_common_words(msgs, cid)),
       Pure("Total Words Sent", total_words_sent(msgs)),
       Written("Messages per Hour", messages_per_hour(msgs, cid, tz)),
       Pure("Number of Emojis", number_of_emojis(msgs)),
       Written("Most Used Emoji", most_used_emojis(msgs, cid)),
       Pure("Photo Messages Count", photo_messages_count(msgs)),
       Pure("Sticker Messages Count", sticker_messages_count(msgs)),
       Pure("Video Messages Count", video_messages_count(msgs)),
       Pure("Audio Messages Count", audio_messages_count(msgs)),
       Pure("Location Messages Count", location_shared_count(msgs)),
       Pure("Call Count", call_count(msgs)),
       Pure("Good Morning/Night Messages", good_morning_night_messages(msgs)),
       Pure("Average Response Time", average_response_time(msgs)),
       Written("Love Words Count", love_words_count(msgs, cid)),
       Written("Insult Words Count", insult_words_count(msgs, cid)),
       Written("Monthly Message Frequency Variation",
               monthly_frequency_variation(msgs, cid, tz)),
       Written("Daily Message Frequency Variation",
               daily_frequency_variation(msgs, cid, tz)),
       Written("Weekday Message Frequency Variation",
               weekday_frequency_variation(msgs, cid, tz)) >>

\* The file system after the file-writing entries of es ran, in order.
RECURSIVE WriteAll(_, _)
WriteAll(fs, es) ==
    IF es = <<>> THEN fs
    ELSE WriteAll(IF Head(es).writes
                  THEN write_to_file(fs, Head(es).out.data, Head(es).out.file_name)
                  ELSE fs,
                  Tail(es))

-----------------------------------------------------------------------------
(* The conversations of the model *)

\* "Bom dia!", "Boa noite", "bd" + U+1F600, "te amo"
TextBomDia == <<66, 111, 109, 32, 100, 105, 97, 33>>
TextBoaNoite == <<66, 111, 97, 32, 110, 111, 105, 116, 101>>
TextBdEmoji == <<98, 100, 32, 128512>>
TextTeAmo == <<116, 101, 32, 97, 109, 111>>

\* The rows a conversation is drawn from:
\* <<timestamp, from_me, message_type, text_data>>.
Sample ==
    << <<0, 1, 0, TextBomDia>>,
       <<60000, 0, 16, TextBoaNoite>>,
       <<60000, 1, 1, None>>,
       <<86400000, 0, 42, None>>,
       <<90000000, 1, 20, <<>> >>,
       <<172800000, 0, 2, TextBdEmoji>>,
       <<172800000, 1, 3, None>>,
       <<270000000, 1, 90, None>>,
       <<864000000, 0, 5, TextTeAmo>> >>

\* The database row of sample k stored as the message with id message_id.
Row(message_id, k) ==
    [c \in 1..18 |->
        CASE c = 1 -> message_id
          [] c = 4 -> Sample[k][2]
          [] c = 14 -> Sample[k][1]
          [] c = 17 -> Sample[k][3]
          [] c = 18 -> Sample[k][4]
          [] OTHER -> 0]

\* The messages of the conversation whose rows are the samples ks.
Conversation(ks) == [i \in 1..Len(ks) |-> from_row(Row(i, ks[i]))]

HeldConversations ==
    {<<>>, <<1, 2>>, <<2, 1, 6>>, <<3, 4, 5, 6, 9>>}

ConversationIds == {7, 12}

\* UTC, and a zone whose clocks go back one hour (from UTC-02:00 to
\* UTC-03:00) 30 s after the epoch.
TimeZones ==
    { [before |-> 0, until |-> 0, after |-> 0],
      [before |-> -7200000, until |-> 30000, after |-> -10800000] }

NoCall == [op |-> "", exc |-> "", value |-> None]

LibraryInit ==
    /\ argv = <<>>
    /\ pc = "library"
    /\ script_id = None
    /\ stdout = <<>>
    /\ stderr = ""
    /\ exit_status = <<>>
    /\ created = {}

\* An Analyzer constructed over a conversation; its metrics may be called.
Init ==
    /\ \E ks \in HeldConversations : messages = Conversation(ks)
    /\ conversation_id \in ConversationIds
    /\ TZ \in TimeZones
    /\ files = {}
    /\ ret = NoCall
    /\ calls = 0
    /\ first = NoCall
    /\ loaded = [messages |-> messages, conversation_id |-> conversation_id]
    /\ LibraryInit

\* An Analyzer over any conversation of at most MaxLen sample rows, with one
\* call to make.
InitMetrics ==
    /\ \E ks \in SeqsUpTo(1..Len(Sample), MaxLen) : messages = Conversation(ks)
    /\ conversation_id \in {7}
    /\ TZ \in TimeZones
    /\ files = {}
    /\ ret = NoCall
    /\ calls = MaxCalls - 1
    /\ first = NoCall
    /\ loaded = [messages |-> messages, conversation_id |-> conversation_id]
    /\ LibraryInit

-----------------------------------------------------------------------------
(* Calls on the Analyzer *)

\* One more call is made; its outcome is kept, the first one's apart.
Called(outcome) ==
    /\ calls < MaxCalls
    /\ calls' = calls + 1
    /\ ret' = outcome
    /\ first' = IF first.op = "" THEN ret' ELSE first

\* A metric that only reads: it returns value.
Returns(op, value) ==
    /\ Called([op |-> op, exc |-> "", value |-> value])
    /\ UNCHANGED <<messages, conversation_id, TZ, files, loaded>>
    /\ UNCHANGED cliVars

\* A metric that ends in write_to_file(r.data, r.file_name): the file is
\* written and its name returned, or open() raises OSError.
Writes(op, r) ==
    /\ calls < MaxCalls
    /\ \/ /\ files' = write_to_file(files, r.data, r.file_name)
          /\ Called([op |-> op, exc |-> "", value |-> r.file_name])
       \/ /\ files' = files
          /\ Called([op |-> op, exc |-> "OSError", value |-> None])
    /\ UNCHANGED <<messages, conversation_id, TZ, loaded>>
    /\ UNCHANGED cliVars

Call_total_messages == Returns("total_messages", total_messages(messages))

Call_messages_by_sender == Returns("messages_by_sender", messages_by_sender(messages))

Call_average_messages_per_day ==
    Returns("average_messages_per_day", average_messages_per_day(messages, TZ))

Call_day_with_most_messages ==
    Returns("day_with_most_messages", day_with_most_messages(messages, TZ))

Call_day_with_least_messages ==
    Returns("day_with_least_messages", day_with_least_messages(messages, TZ))

Call_most_common_words ==
    Writes("most_common_words", most_common_words(messages, conversation_id))

Call_total_words_sent == Returns("total_words_sent", total_words_sent(messages))

Call_messages_per_hour ==
    Writes("messages_per_hour", messages_per_hour(messages, conversation_id, TZ))

Call_number_of_emojis == Returns("number_of_emojis", number_of_emojis(messages))

Call_most_used_emojis ==
    Writes("most_used_emojis", most_used_emojis(messages, conversation_id))

Call_photo_messages_count ==
    Returns("photo_messages_count", photo_messages_count(messages))

Call_sticker_messages_count ==
    Returns("sticker_messages_count", sticker_messages_count(messages))

Call_audio_messages_count ==
    Returns("audio_messages_count", audio_messages_count(messages))

Call_video_messages_count ==
    Returns("video_messages_count", video_messages_count(messages))

Call_call_count == Returns("call_count", call_count(messages))

Call_location_shared_count ==
    Returns("location_shared_count", location_shared_count(messages))

Call_good_morning_night_messages ==
    Returns("good_morning_night_messages", good_morning_night_messages(messages))

\* A variant whose loop consumes self.messages (pop) instead of iterating.
Call_average_response_time_consuming ==
    /\ Called([op |-> "average_response_time", exc |-> "",
                value |-> average_response_time(messages)])
    /\ messages' = <<>>
    /\ UNCHANGED <<conversation_id, TZ, files, loaded>>
    /\ UNCHANGED cliVars

Call_average_response_time ==
    Returns("average_response_time", average_response_time(messages))

Call_love_words_count ==
    Writes("love_words_count", love_words_count(messages, conversation_id))

Call_insult_words_count ==
    Writes("insult_words_count", insult_words_count(messages, conversation_id))

Call_weekday_frequency_variation ==
    Writes("weekday_frequency_variation",
           weekday_frequency_variation(messages, conversation_id, TZ))

Call_monthly_frequency_variation ==
    Writes("monthly_frequency_variation",
           monthly_frequency_variation(messages, conversation_id, TZ))

Call_daily_frequency_variation ==
    Writes("daily_frequency_variation",
           daily_frequency_variation(messages, conversation_id, TZ))

\* analyze(): the entries are evaluated in order. An entry's write may raise
\* (p is its position): the exception leaves analyze(), the entries before p
\* have run and no report is returned. With p = 0 no write fails and the
\* report holds every entry.
Call_analyze ==
    /\ calls < MaxCalls
    /\ \E es \in {analyze_entries(messages, conversation_id, TZ)} :
           \E p \in {0} \cup {i \in 1..Len(es) : es[i].writes} :
              IF p = 0
              THEN /\ files' = WriteAll(files, es)
                   /\ Called([op |-> "analyze", exc |-> "",
                               value |-> Map(es, LAMBDA e : <<e.key, e.value>>)])
              ELSE /\ files' = WriteAll(files, SubSeq(es, 1, p - 1))
                   /\ Called([op |-> "analyze", exc |-> "OSError", value |-> None])
    /\ UNCHANGED <<messages, conversation_id, TZ, loaded>>
    /\ UNCHANGED cliVars

NextMetrics ==
    \/ Call_total_messages
    \/ Call_messages_by_sender
    \/ Call_average_messages_per_day
    \/ Call_day_with_most_messages
    \/ Call_day_with_least_messages
    \/ Call_total_words_sent
    \/ Call_number_of_emojis
    \/ Call_photo_messages_count
    \/ Call_sticker_messages_count
    \/ Call_audio_messages_count
    \/ Call_video_messages_count
    \/ Call_call_count
    \/ Call_location_shared_count
    \/ Call_good_morning_night_messages
    \/ Call_average_response_time

Next ==
    \/ NextMetrics
    \/ Call_most_common_words
    \/ Call_messages_per_hour
    \/ Call_most_used_emojis
    \/ Call_love_words_count
    \/ Call_insult_words_count
    \/ Call_weekday_frequency_variation
    \/ Call_monthly_frequency_variation
    \/ Call_daily_frequency_variation
    \/ Call_analyze

Spec == Init /\ [][Next]_vars

SpecMetrics == InitMetrics /\ [][NextMetrics]_vars

-----------------------------------------------------------------------------
(* main.py *)

\* The characters a command-line argument is drawn from: 4 2 - x space _
ArgAlphabet == {52, 50, 45, 120, 32, 95}

RECURSIVE lstrip(_)
lstrip(s) == IF s # <<>> /\ IsSpace(Head(s)) THEN lstrip(Tail(s)) ELSE s

RECURSIVE rstrip(_)
rstrip(s) ==
    IF s # <<>> /\ IsSpace(s[Len(s)]) THEN rstrip(SubSeq(s, 1, Len(s) - 1)) ELSE s

RECURSIVE DigitsValue(_, _)
DigitsValue(acc, s) ==
    IF s = <<>> THEN acc
    ELSE DigitsValue(IF Head(s) = 95 THEN acc ELSE 10 * acc + (Head(s) - 48), Tail(s))

\* int(s) of a str: white space around, an optional sign, then decimal digits
\* that single underscores may separate. ok is FALSE where int raises
\* ValueError.
int(s) ==
    LET t == rstrip(lstrip(s))
        signed == t # <<>> /\ t[1] \in {43, 45}
        body == IF signed THEN Tail(t) ELSE t
        ok == /\ body # <<>>
              /\ \A i \in 1..Len(body) : body[i] \in 48..57 \/ body[i] = 95
              /\ body[1] # 95
              /\ body[Len(body)] # 95
              /\ \A i \in 1..(Len(body) - 1) : ~(body[i] = 95 /\ body[i + 1] = 95)
    IN  [ok |-> ok,
         value |-> IF ok
                   THEN (IF signed /\ t[1] = 45 THEN -1 ELSE 1) * DigitsValue(0, body)
                   ELSE 0]

UsageMessage == "Usage: python main.py conversation_id"

\* The interpreter ends the process on an uncaught exception: the traceback
\* goes to stderr and the exit status is 1.
Uncaught(exception) ==
    /\ stderr' = exception
    /\ exit_status' = <<1>>
    /\ pc' = "exited"

\* `if len(sys.argv) < 2: print(usage); sys.exit(1)`
Script_check_argv ==
    /\ pc = "start"
    /\ IF Len(argv) < 2
       THEN /\ stdout' = Append(stdout, UsageMessage)
            /\ exit_status' = <<1>>
            /\ pc' = "exited"
       ELSE /\ pc' = "parse"
            /\ UNCHANGED <<stdout, exit_status>>
    /\ UNCHANGED <<argv, script_id, stderr, created>>
    /\ UNCHANGED analyzerVars

\* `conversation_id = int(sys.argv[1])`
Script_parse_conversation_id ==
    /\ pc = "parse"
    /\ \E parsed \in {int(argv[2])} :
          IF parsed.ok
          THEN /\ script_id' = parsed.value
               /\ pc' = "main"
               /\ UNCHANGED <<stderr, exit_status>>
          ELSE /\ Uncaught("ValueError")
               /\ UNCHANGED script_id
    /\ UNCHANGED <<argv, stdout, created>>
    /\ UNCHANGED analyzerVars

\* main: `data_loader = DataLoader(DB_PATH)`
main_DataLoader ==
    /\ pc = "main"
    /\ created' = created \cup {"DataLoader"}
    /\ pc' = "load_messages"
    /\ UNCHANGED <<argv, script_id, stdout, stderr, exit_status>>
    /\ UNCHANGED analyzerVars

\* main: `data_loader.load_messages(conversation_id)`. DataLoader defines
\* connect, execute_query and close only, so the attribute lookup raises and
\* the statements after it (Analyzer(messages), analyze(), the prints) are
\* never reached.
main_load_messages ==
    /\ pc = "load_messages"
    /\ Uncaught("AttributeError")
    /\ UNCHANGED <<argv, script_id, stdout, created>>
    /\ UNCHANGED analyzerVars

\* sys.argv: the script's name, then no argument or one argument of at most
\* MaxArgLen characters.
InitCLI ==
    /\ argv \in {<<"main.py">>}
                 \cup {<<"main.py", a>> : a \in SeqsUpTo(ArgAlphabet, MaxArgLen)}
    /\ pc = "start"
    /\ script_id = None
    /\ stdout = <<>>
    /\ stderr = ""
    /\ exit_status = <<>>
    /\ created = {}
    /\ messages = <<>>
    /\ conversation_id = 0
    /\ TZ \in TimeZones
    /\ files = {}
    /\ ret = NoCall
    /\ calls = 0
    /\ first = NoCall
    /\ loaded = [messages |-> <<>>, conversation_id |-> 0]

NextCLI ==
    \/ Script_check_argv
    \/ Script_parse_conversation_id
    \/ main_DataLoader
    \/ main_load_messages

SpecCLI == InitCLI /\ [][NextCLI]_vars

-----------------------------------------------------------------------------
(* Properties *)

Max(a, b) == IF a >= b THEN a ELSE b

\* The sum of f over the finite set of integers I.
RECURSIVE SumOver(_, _)
SumOver(I, f) ==
    IF I = {} THEN 0
    ELSE LET i == CHOOSE j \in I : TRUE IN f[i] + SumOver(I \ {i}, f)

Returned(op) == ret.op = op /\ ret.exc = ""

NonDecreasing(msgs) ==
    \A i \in 1..(Len(msgs) - 1) : msgs[i].timestamp <= msgs[i + 1].timestamp

\* C1: for a non-empty message sequence, the from_me and from_them counts that
\* messages_by_sender returns are both non-negative and sum to what
\* total_messages returns on the same Analyzer.
C1_SenderCountsSumToTotal ==
    (Returned("messages_by_sender") /\ messages # <<>>) =>
        /\ ret.value.from_me >= 0
        /\ ret.value.from_them >= 0
        /\ ret.value.from_me + ret.value.from_them = total_messages(messages)

C1_Witness ==
    /\ Returned("messages_by_sender")
    /\ Len(messages) = 3
    /\ ret.value.from_me = 2
    /\ ret.value.from_them = 1

\* The average, in seconds, of the gaps to the preceding message over the
\* positions I: their sum over their number, 0 when there is none.
GapAverage(I) ==
    IF I = {} THEN Zero
    ELSE Frac(SumOver(I, [i \in I |-> messages[i].timestamp - messages[i - 1].timestamp]),
              1000 * Cardinality(I))

TwoMessageScenario ==
    /\ Len(messages) = 2
    /\ messages[1].timestamp = 0 /\ messages[1].from_me
    /\ messages[2].timestamp = 60000 /\ ~messages[2].from_me

\* C2: average_response_time attributes, for every position i >= 2, the gap
\* (timestamp[i] - timestamp[i-1]) / 1000 to the bucket of message i's sender
\* ('me' when message i is from self, 'them' otherwise), whoever sent message
\* i - 1; a bucket's average is the sum of its gaps over their number, and 0
\* when it is empty. For [{t=0, self}, {t=60000, other}] 'them' is 60, 'me' 0.
C2_ResponseTimeByCurrentSender ==
    Returned("average_response_time") =>
        /\ ret.value.average_response_time_me =
              GapAverage({i \in 2..Len(messages) : messages[i].from_me})
        /\ ret.value.average_response_time_them =
              GapAverage({i \in 2..Len(messages) : ~messages[i].from_me})
        /\ TwoMessageScenario =>
              /\ ret.value.average_response_time_them = <<60, 1>>
              /\ ret.value.average_response_time_me = <<0, 1>>

C2_Witness ==
    /\ Returned("average_response_time")
    /\ TwoMessageScenario
    /\ ret.value.average_response_time_them = <<60, 1>>

\* The value the report of analyze() holds under key.
ReportValue(report, key) == report[CHOOSE i \in 1..Len(report) : report[i][1] = key][2]

AllZero(mapping) == \A k \in DOMAIN mapping : mapping[k] = Zero

CountNames ==
    {"total_messages", "total_words_sent", "number_of_emojis", "photo_messages_count",
     "sticker_messages_count", "audio_messages_count", "video_messages_count",
     "call_count", "location_shared_count"}

CountKeys ==
    {"Total Messages", "Total Words Sent", "Number of Emojis", "Photo Messages Count",
     "Sticker Messages Count", "Audio Messages Count", "Video Messages Count",
     "Call Count", "Location Messages Count"}

WritingNames ==
    {"most_common_words", "messages_per_hour", "most_used_emojis", "love_words_count",
     "insult_words_count", "weekday_frequency_variation",
     "monthly_frequency_variation", "daily_frequency_variation", "analyze"}

\* C3: on an empty message sequence no metric operation, nor analyze(), raises
\* on account of the data (the one exception the model has is the OSError of a
\* failed file write), and each returns its default: the counts 0, both sender
\* counts 0, every average per day zero, the days with most and with least
\* messages None, both greeting counts 0 and every response-time average 0.
C3_EmptySequenceDefaults ==
    (messages = <<>> /\ ret.op # "") =>
        /\ ret.exc # "" => (ret.exc = "OSError" /\ ret.op \in WritingNames)
        /\ (ret.exc = "" /\ ret.op \in CountNames) => ret.value = 0
        /\ Returned("messages_by_sender") =>
              ret.value = [from_me |-> 0, from_them |-> 0]
        /\ Returned("average_messages_per_day") => AllZero(ret.value)
        /\ Returned("day_with_most_messages") => ret.value = None
        /\ Returned("day_with_least_messages") => ret.value = None
        /\ Returned("good_morning_night_messages") =>
              ret.value = [bom_dia |-> 0, boa_noite |-> 0]
        /\ Returned("average_response_time") =>
              /\ DOMAIN ret.value = {"average_response_time_general",
                                     "average_response_time_me",
                                     "average_response_time_them"}
              /\ AllZero(ret.value)
        /\ Returned("analyze") =>
              /\ \A k \in CountKeys : ReportValue(ret.value, k) = 0
              /\ ReportValue(ret.value, "Messages by Sender") =
                    [from_me |-> 0, from_them |-> 0]
              /\ AllZero(ReportValue(ret.value, "Average Messages per Day"))
              /\ ReportValue(ret.value, "Day with Most Messages") = None
              /\ ReportValue(ret.value, "Day with Least Messages") = None
              /\ ReportValue(ret.value, "Good Morning/Night Messages") =
                    [bom_dia |-> 0, boa_noite |-> 0]
              /\ AllZero(ReportValue(ret.value, "Average Response Time"))

C3_Witness ==
    /\ messages = <<>>
    /\ Returned("analyze")
    /\ first.op = "average_messages_per_day"
    /\ first.exc = ""

SortedCallOfAveragePerDay ==
    Returned("average_messages_per_day") /\ messages # <<>> /\ NonDecreasing(messages)

MineCount == Cardinality({i \in 1..Len(messages) : messages[i].from_me})

TheirCount == Cardinality({i \in 1..Len(messages) : ~messages[i].from_me})

\* average_messages_per_day returned the three counts divided by D.
DividesBy(D) ==
    /\ ret.value.average_messages_per_day_general = Frac(Len(messages), D)
    /\ ret.value.average_messages_per_day_me = Frac(MineCount, D)
    /\ ret.value.average_messages_per_day_them = Frac(TheirCount, D)

\* The denominator C4 states: max(1, floor((last - first) / 86400000)).
C4_D ==
    Max(1, (messages[Len(messages)].timestamp - messages[1].timestamp) \div 86400000)

\* The whole days (floored) from the local wall-clock time of the first
\* message to that of the last one, 1 standing in for 0.
C4_LocalD ==
    LET d == (fromtimestamp(messages[Len(messages)].timestamp, TZ)
                 - fromtimestamp(messages[1].timestamp, TZ)) \div 86400000
    IN  IF d = 0 THEN 1 ELSE d

SameOffset ==
    utcoffset(TZ, messages[1].timestamp) = utcoffset(TZ, messages[Len(messages)].timestamp)

\* C4 as stated: for a non-empty sequence with non-decreasing timestamps,
\* average_messages_per_day divides the message count by
\* D = max(1, floor((last.timestamp - first.timestamp) / 86400000)), which is
\* never 0, the averages of 'me' and of 'them' use that same D, and
\* average_me + average_them = average_general for the floats returned.
C4_Original ==
    SortedCallOfAveragePerDay =>
        /\ DividesBy(C4_D)
        /\ float_add(FloatOf(ret.value.average_messages_per_day_me),
                     FloatOf(ret.value.average_messages_per_day_them)) =
              FloatOf(ret.value.average_messages_per_day_general)

\* C4 (amended): for a non-empty sequence with non-decreasing timestamps,
\* average_messages_per_day divides the message count by D, the whole days
\* between the local wall-clock times of the first and the last message with
\* 1 in place of 0, so D is never 0, and D is
\* max(1, floor((last.timestamp - first.timestamp) / 86400000)) when the first
\* and the last message have the same UTC offset; the averages of 'me' and of
\* 'them' use that same D, and my/D + their/D = total/D in exact arithmetic.
C4_AveragePerDayDenominator ==
    SortedCallOfAveragePerDay =>
        /\ C4_LocalD # 0
        /\ DividesBy(C4_LocalD)
        /\ SameOffset => C4_LocalD = C4_D
        /\ LET me == ret.value.average_messages_per_day_me
               them == ret.value.average_messages_per_day_them
           IN  Frac(me[1] * them[2] + them[1] * me[2], me[2] * them[2]) =
                  ret.value.average_messages_per_day_general

\* A conversation of three messages within less than one day: D is 1.
C4_Witness ==
    /\ Returned("average_messages_per_day")
    /\ Len(messages) = 3
    /\ NonDecreasing(messages)
    /\ messages[3].timestamp - messages[1].timestamp \in 1..86399999
    /\ ret.value.average_messages_per_day_general = <<3, 1>>

\* A conversation that spans two whole days or more: D is that number of days.
C4_WitnessSeveralDays ==
    /\ Returned("average_messages_per_day")
    /\ Len(messages) = 3
    /\ NonDecreasing(messages)
    /\ ret.value.average_messages_per_day_general = <<3, 2>>
    /\ ret.value.average_messages_per_day_me = <<1, 1>>

\* The clocks went back between the first and the last message: the local
\* span is an hour short of ten days and D is 9.
C4_WitnessClockChange ==
    /\ Returned("average_messages_per_day")
    /\ Len(messages) = 3
    /\ NonDecreasing(messages)
    /\ ~SameOffset
    /\ C4_D = 10
    /\ ret.value.average_messages_per_day_general = <<1, 3>>

\* The calendar date of message i, and the number of messages of a date.
DateOf(i) == strftime_Ymd(fromtimestamp(messages[i].timestamp, TZ))

CountOn(date) == Cardinality({i \in 1..Len(messages) : DateOf(i) = date})

SurvivingDays == {d \in {DateOf(i) : i \in 1..Len(messages)} : CountOn(d) \notin {0, 2}}

\* A surviving day of the least count whose first message comes before the
\* first message of every other such day.
FirstLeastDay ==
    CHOOSE d \in SurvivingDays :
        /\ \A o \in SurvivingDays : CountOn(d) <= CountOn(o)
        /\ \A o \in SurvivingDays \ {d} :
              CountOn(o) = CountOn(d) =>
                 \E i \in 1..Len(messages) :
                    DateOf(i) = d /\ \A j \in 1..i : DateOf(j) # o

C5_WitnessTie ==
    /\ Returned("day_with_least_messages")
    /\ Len(messages) = 2
    /\ messages[1].timestamp > messages[2].timestamp
    /\ DateOf(1) # DateOf(2)
    /\ ret.value = <<DateOf(1), 1>>

C5_WitnessNone ==
    /\ Returned("day_with_least_messages")
    /\ Len(messages) = 2
    /\ DateOf(1) = DateOf(2)
    /\ ret.value = None

TypeCount(codes) == Cardinality({i \in 1..Len(messages) : messages[i].message_type \in codes})

\* C6: each media count is the number of records whose type code is in its
\* set (photo {1,42}, sticker {20}, audio {2}, video {3}, call {90}, location
\* {5,16}), and the six counts together do not exceed total_messages.
C6_MediaCounts ==
    /\ Returned("photo_messages_count") => ret.value = TypeCount({1, 42})
    /\ Returned("sticker_messages_count") => ret.value = TypeCount({20})
    /\ Returned("audio_messages_count") => ret.value = TypeCount({2})
    /\ Returned("video_messages_count") => ret.value = TypeCount({3})
    /\ Returned("call_count") => ret.value = TypeCount({90})
    /\ Returned("location_shared_count") => ret.value = TypeCount({5, 16})
    /\ photo_messages_count(messages) + sticker_messages_count(messages)
          + audio_messages_count(messages) + video_messages_count(messages)
          + call_count(messages) + location_shared_count(messages)
          <= total_messages(messages)

C6_Witness ==
    /\ Returned("photo_messages_count")
    /\ ret.value = 2
    /\ \E i, j \in 1..Len(messages) :
          messages[i].message_type = 1 /\ messages[j].message_type = 42
    /\ \E i \in 1..Len(messages) : messages[i].message_type = 0

ReportKeys ==
    <<"Total Messages", "Messages by Sender", "Average Messages per Day",
      "Day with Most Messages", "Day with Least Messages", "Most Common Words",
      "Total Words Sent", "Messages per Hour", "Number of Emojis", "Most Used Emoji",
      "Photo Messages Count", "Sticker Messages Count", "Video Messages Count",
      "Audio Messages Count", "Location Messages Count", "Call Count",
      "Good Morning/Night Messages", "Average Response Time", "Love Words Count",
      "Insult Words Count", "Monthly Message Frequency Variation",
      "Daily Message Frequency Variation", "Weekday Message Frequency Variation">>

\* The files of analyze()'s writing metrics, in the order it writes them.
AnalyzeFiles ==
    <<"most-common-words-", "messages-per-hour-", "top-emojis-", "love-word-counts-",
      "insult-word-counts-", "monthly-frequency-", "daily-frequency-",
      "weekday-frequency-">>

FilePrefixes == {f.name[1] : f \in files}

AnalyzeFailed == ret.op = "analyze" /\ ret.exc # ""

\* C8 as stated: when a metric of analyze() fails, analyze() still returns a
\* report, which holds the result of every metric that did not fail.
C8_Original ==
    AnalyzeFailed =>
        /\ ret.value # None
        /\ \A k \in CountKeys : \E i \in 1..Len(ret.value) : ret.value[i][1] = k

\* C8 (amended): analyze() evaluates its metrics in a fixed order and isolates
\* none of them. When a metric fails, the exception leaves analyze(): no report
\* is returned, the files of the metrics before the failing one are written and
\* those of the metrics after it are not. When no metric fails, the report
\* holds every one of the 23 metrics, in that order, and all 8 files are
\* written.
C8_FailureAbortsReport ==
    ret.op = "analyze" =>
        IF ret.exc = ""
        THEN /\ [i \in 1..Len(ret.value) |-> ret.value[i][1]] = ReportKeys
             /\ FilePrefixes = {AnalyzeFiles[i] : i \in 1..Len(AnalyzeFiles)}
        ELSE /\ ret.exc = "OSError"
             /\ ret.value = None
             /\ calls = 1 =>
                   \E n \in 0..(Len(AnalyzeFiles) - 1) :
                      FilePrefixes = {AnalyzeFiles[i] : i \in 1..n}

\* The write of the fourth file failed: three files are written, no report.
C8_Witness ==
    /\ AnalyzeFailed
    /\ calls = 1
    /\ FilePrefixes = {"most-common-words-", "messages-per-hour-", "top-emojis-"}

C8_WitnessReport ==
    /\ Returned("analyze")
    /\ Len(ret.value) = 23
    /\ messages # <<>>

\* C9: when the conversation-identifier argument is missing or does not parse
\* as an integer, the script prints the usage message and exits with a
\* non-zero status, having created no DataLoader and no Analyzer.
C9_UsageOnBadArgument ==
    (pc = "exited" /\ (Len(argv) < 2 \/ ~int(argv[2]).ok)) =>
        /\ \E i \in 1..Len(stdout) : stdout[i] = UsageMessage
        /\ exit_status # <<0>>
        /\ created = {}

\* What does hold: a missing argument prints the usage message, an argument
\* that is no integer ends the script with an uncaught ValueError; both exit
\* with status 1 before anything is created.
C9_FailsBeforeLoading ==
    (pc = "exited" /\ (Len(argv) < 2 \/ ~int(argv[2]).ok)) =>
        /\ exit_status = <<1>>
        /\ created = {}
        /\ IF Len(argv) < 2 THEN stdout = <<UsageMessage>> /\ stderr = ""
           ELSE stdout = <<>> /\ stderr = "ValueError"

\* C10: average_messages_per_day returns a mapping with the same keys for
\* every input: the keys for a non-empty sequence are those of the zeroed
\* breakdown it returns for an empty one.
C10_SameKeys ==
    Returned("average_messages_per_day") =>
        DOMAIN ret.value = DOMAIN average_messages_per_day(<<>>, TZ)

\* What does hold: the empty sequence gives the keys general, me and them,
\* any other the keys average_messages_per_day_general, _me and _them.
C10_KeysByInput ==
    Returned("average_messages_per_day") =>
        DOMAIN ret.value =
            IF messages = <<>> THEN {"general", "me", "them"}
            ELSE {"average_messages_per_day_general", "average_messages_per_day_me",
                  "average_messages_per_day_them"}

====
